---- MODULE Spec2Model ----
(***************************************************************************)
(* A model of project1.py: the DataLoader (CSV loading, column drops,      *)
(* dtype overrides, log transform of the response), the preprocessor       *)
(* builder, the two model pipelines, the ten-fold scoring loop and the     *)
(* RMSE summary printer.                                                   *)
(*                                                                         *)
(* Data frames are modelled by what the program can observe of them: the   *)
(* directory and file they were read from, their column names, the dtype   *)
(* of each column, their number of rows and whether a numeric predictor    *)
(* holds a missing value.  A response series carries the number of times   *)
(* np.log has been applied to it.  The numeric value of an RMSE is what    *)
(* the data make it; it is drawn from a small family of error profiles.    *)
(***************************************************************************)
EXTENDS Integers, Sequences, FiniteSets, TLC

\* ------------------------------------------------------------------ bounds
MaxRows == 2    \* rows of a test.csv / test_y.csv
MaxLen == 4     \* length of an RMSE sequence handed to summarize_rmse alone
MaxVal == 2     \* largest RMSE value in such a sequence

\* --------------------------------------------------------------- constants
num_folds == 10

RESPONSE_VAR == "Sale_Price"

CATEGORICALS ==
    {"Year_Built", "Year_Remod_Add", "Garage_Yr_Blt", "Mo_Sold", "Year_Sold"}

DROP_COLS ==
    {"Street", "Utilities", "Condition_2", "Roof_Matl", "Heating", "Pool_QC",
     "Misc_Feature", "Low_Qual_Fin_SF", "Pool_Area", "Latitude", "Longitude"}

\* Predictors of the data set that are in neither list (a sample of them).
OTHER_COLS == {"Lot_Area", "Lot_Frontage", "Neighborhood", "Central_Air"}

PREDICTOR_COLS == DROP_COLS \cup CATEGORICALS \cup OTHER_COLS

\* ------------------------------------------------------------- input files
\* How the text of a column reads: "int" as integers, "float" as decimals (or
\* integers with blanks), "bool" as True/False, "str" as anything else.
\* The text kind of each column in a well-formed file, in two variants: the
\* override columns always look numeric; Central_Air is Y/N or True/False.
KindsOf(v) ==
    [c \in PREDICTOR_COLS \cup {RESPONSE_VAR} |->
        CASE c \in {"Low_Qual_Fin_SF", "Pool_Area", "Lot_Area", RESPONSE_VAR}
                -> "int"
          [] c \in {"Latitude", "Longitude", "Lot_Frontage"} -> "float"
          [] c = "Garage_Yr_Blt" -> IF v = 1 THEN "int" ELSE "float"
          [] c \in CATEGORICALS -> "int"
          [] c = "Central_Air" -> IF v = 1 THEN "str" ELSE "bool"
          [] OTHER -> "str"]

Missing == [exists |-> FALSE]

CsvFile(cols, v, nan, rows) ==
    [exists |-> TRUE, cols |-> cols, kind |-> [c \in cols |-> KindsOf(v)[c]],
     nan |-> nan, rows |-> rows]

TRAIN_COLS == PREDICTOR_COLS \cup {RESPONSE_VAR}

\* What a directory may hold as train.csv.
TrainCsvs ==
    {Missing}
    \cup {CsvFile(TRAIN_COLS, v, nan, MaxRows) : v \in 1..2, nan \in BOOLEAN}
    \cup {CsvFile(TRAIN_COLS \ {c}, 1, FALSE, MaxRows) :
            c \in {"Street", RESPONSE_VAR, "Mo_Sold"}}

\* What a directory may hold as test.csv.
TestCsvs ==
    {Missing}
    \cup {CsvFile(PREDICTOR_COLS, 1, FALSE, r) : r \in 1..MaxRows}
    \cup {CsvFile(PREDICTOR_COLS, 1, TRUE, 1)}
    \cup {CsvFile(PREDICTOR_COLS \cup {RESPONSE_VAR}, 1, FALSE, 1)}
    \cup {CsvFile(PREDICTOR_COLS \ {c}, 1, FALSE, 1) : c \in {"Street", "Lot_Area"}}

\* What a fold directory may hold as test_y.csv.
TestYCsvs ==
    {Missing} \cup {CsvFile({RESPONSE_VAR}, 1, FALSE, r) : r \in 1..MaxRows}

\* ------------------------------------------------------------ pandas/numpy
\* DataLoader.__init__: every override column is mapped to dtype object.
dtype_dict == [col \in CATEGORICALS |-> "object"]

\* The dtype read_csv infers from the text of a column.
InferDtype(kind) ==
    CASE kind = "int" -> "int64"
      [] kind = "float" -> "float64"
      [] kind = "bool" -> "bool"
      [] OTHER -> "object"

\* pd.read_csv(path, index_col=0, dtype=dtypes): the index column is not a
\* column of the frame; a column named in dtypes gets that dtype, the others
\* the inferred one.
read_csv_ignoring_dtype(f, stem, name, dtypes) ==
    [src |-> stem, file |-> name, cols |-> f.cols,
     dtype |-> [c \in f.cols |-> InferDtype(f.kind[c])],
     nan |-> f.nan, rows |-> f.rows, logs |-> 0]

read_csv(f, stem, name, dtypes) ==
    [src |-> stem, file |-> name, cols |-> f.cols,
     dtype |-> [c \in f.cols |->
                  IF c \in DOMAIN dtypes THEN dtypes[c] ELSE InferDtype(f.kind[c])],
     nan |-> f.nan, rows |-> f.rows, logs |-> 0]

\* df.drop(columns=cols); the caller has checked that cols are all there.
drop(df, cols) ==
    [df EXCEPT !.cols = df.cols \ cols,
               !.dtype = [c \in df.cols \ cols |-> df.dtype[c]]]

\* df[col] and np.log(x): the response keeps where it came from and how many
\* times the logarithm was taken of it.
column(df, col) ==
    [src |-> df.src, file |-> df.file, col |-> col, rows |-> df.rows, logs |-> df.logs]

np_log_skipped(x) == x

np_log(x) == [x EXCEPT !.logs = @ + 1]

\* -------------------------------------------------------------- DataLoader
Raised == [raised |-> TRUE]

\* DataLoader._clean_data(stem), reading the files fs of the directory stem.
\* Every step that can raise (a missing file, a KeyError for a missing column)
\* is in the order of the code.
clean_data(stem, fs) ==
    IF ~fs.train.exists THEN Raised
    ELSE LET df_train == read_csv(fs.train, stem, "train.csv", dtype_dict) IN
    IF RESPONSE_VAR \notin df_train.cols THEN Raised
    ELSE LET train_y == np_log(column(df_train, RESPONSE_VAR))
             no_resp == drop(df_train, {RESPONSE_VAR}) IN
    IF ~(DROP_COLS \subseteq no_resp.cols) THEN Raised
    ELSE LET train_X == drop(no_resp, DROP_COLS) IN
    IF ~fs.test.exists THEN Raised
    ELSE LET df_test == read_csv(fs.test, stem, "test.csv", dtype_dict) IN
    IF ~(DROP_COLS \subseteq df_test.cols) THEN Raised
    ELSE [raised |-> FALSE, train_X |-> train_X, train_y |-> train_y,
          test_X |-> drop(df_test, DROP_COLS)]

\* DataLoader.get_prediction_data(): the project root, directory 0.
get_prediction_data(fs) == clean_data(0, fs)

\* DataLoader.get_fold_data(fold): directory fold<fold>, numbered 1..10.
get_fold_data(k, fs) ==
    LET c == clean_data(k, fs) IN
    IF c.raised THEN Raised
    ELSE IF ~fs.test_y.exists THEN Raised
    ELSE [raised |-> FALSE, train_X |-> c.train_X, train_y |-> c.train_y,
          test_X |-> c.test_X,
          test_y |-> np_log(read_csv(fs.test_y, k, "test_y.csv", <<>>))]

\* make_column_selector(dtype_include=object) and (dtype_exclude=object).
categorical_columns_selector(X) == {c \in X.cols : X.dtype[c] = "object"}

numerical_columns_selector(X) == {c \in X.cols : X.dtype[c] # "object"}

NotFitted == [src |-> -1, file |-> "none"]

\* DataLoader.make_preprocessor(train_X): an unfitted ColumnTransformer over
\* the two column groups.
make_preprocessor(X) ==
    [categorical_columns |-> categorical_columns_selector(X),
     numerical_columns |-> numerical_columns_selector(X),
     fits |-> 0, fitted_on |-> NotFitted]

\* ---------------------------------------------------------------- pipelines
Origin(x) == [src |-> x.src, file |-> x.file]

\* Pipeline.fit(X, y): the pipeline holds the preprocessor object itself (no
\* clone), so fitting the pipeline fits that object again, in place, on X; the
\* regressor rejects a missing value.
fit_on_clone(prep, X) == prep

fit_transformer(prep, X) ==
    [prep EXCEPT !.fits = @ + 1, !.fitted_on = Origin(X)]

pipeline_fit(est, prep, X, y) ==
    LET fitted == fit_transformer(prep, X) IN
    [raised |-> X.nan, preprocessor |-> fitted,
     model |-> [estimator |-> est, fit_X |-> Origin(X), fit_y |-> Origin(y),
                fit_logs |-> y.logs, prep_fit |-> fitted.fits]]

\* Pipeline.predict(X): the fitted preprocessor transforms X (it needs every
\* column it was built over) and the regressor predicts one value per row, in
\* the space of the response it was fit on.
pipeline_predict(m, prep, X) ==
    IF ~((prep.categorical_columns \cup prep.numerical_columns) \subseteq X.cols)
       \/ X.nan
    THEN Raised
    ELSE [raised |-> FALSE,
          pred |-> [estimator |-> m.estimator, on |-> Origin(X), rows |-> X.rows,
                    logs |-> m.fit_logs, fit_X |-> m.fit_X, fit_y |-> m.fit_y,
                    prep_fit |-> prep.fits, prep_on |-> prep.fitted_on]]

\* The body shared by predict_regression and predict_tree: make_pipeline, fit
\* on the arguments, predict on X_new.
fit_predict(est, tX, ty, prep, X_new) ==
    LET f == pipeline_fit(est, prep, tX, ty) IN
    IF f.raised THEN [raised |-> TRUE, preprocessor |-> f.preprocessor]
    ELSE LET p == pipeline_predict(f.model, f.preprocessor, X_new) IN
         IF p.raised THEN [raised |-> TRUE, preprocessor |-> f.preprocessor]
         ELSE [raised |-> FALSE, preprocessor |-> f.preprocessor, pred |-> p.pred]

\* The RMSE the data of fold k give the estimator, under error profile p.
MeasuredRmse(p, k, est) ==
    IF est = "ElasticNet" THEN (p * k) % 4 ELSE (p * k + k \div 3) % 5

\* mean_squared_error(y, pred, squared=False): the lengths must agree.
mean_squared_error(y, pred, p, k) ==
    IF y.rows # pred.rows THEN Raised
    ELSE [raised |-> FALSE, value |-> MeasuredRmse(p, k, pred.estimator)]

\* ------------------------------------------------------------ summarize_rmse
Range(h) == {h[i] : i \in 1..Len(h)}

\* min(half), max(half): the builtins raise on an empty sequence; the callers
\* below have checked.
SeqMin(h) == CHOOSE x \in Range(h) : \A y \in Range(h) : x <= y

SeqMax(h) == CHOOSE x \in Range(h) : \A y \in Range(h) : y <= x

RECURSIVE SeqSum(_)
SeqSum(h) == IF h = <<>> THEN 0 ELSE h[1] + SeqSum(Tail(h))

\* np.mean(half), kept as the exact quotient sum / n.
np_mean(h) == [sum |-> SeqSum(h), n |-> Len(h)]

\* np.argmax(half): the 0-based position of the first maximum.
np_argmax(h) ==
    (CHOOSE i \in 1..Len(h) :
        h[i] = SeqMax(h) /\ \A j \in 1..(i - 1) : h[j] # SeqMax(h)) - 1

\* start_idx = (0, len(rmse_array) // 2)
start_idx(a) == <<0, Len(a) \div 2>>

\* rmse_array[0:start_idx[1]]
first_half(a) == SubSeq(a, 1, start_idx(a)[2])

\* rmse_array[start_idx[1]:]
second_half_off_by_one(a) == SubSeq(a, start_idx(a)[2] + 2, Len(a))

second_half(a) == SubSeq(a, start_idx(a)[2] + 1, Len(a))

\* "Worst: Fold {np.argmax(half) + idx + 1}"
worst_fold_without_offset(half, idx) == np_argmax(half) + 1

worst_fold(half, idx) == np_argmax(half) + idx + 1

\* The block printed for one half.
HalfBlock(title, half, idx) ==
    [kind |-> "half", title |-> title, half |-> half,
     range |-> <<SeqMin(half), SeqMax(half)>>, mean |-> np_mean(half),
     worst |-> worst_fold(half, idx)]

Header(desc) == [kind |-> "header", title |-> desc]

\* summarize_rmse(rmse_array, desc): what it prints, and whether it raised
\* (min() of an empty half raises ValueError after the header and the blocks
\* before it are out).
summarize_rmse(a, desc) ==
    LET h1 == first_half(a)
        h2 == second_half(a)
        idx == start_idx(a)
    IN  IF h1 = <<>> THEN [raised |-> TRUE, out |-> <<Header(desc)>>]
        ELSE IF h2 = <<>>
        THEN [raised |-> TRUE,
              out |-> <<Header(desc), HalfBlock("First Half", h1, idx[1])>>]
        ELSE [raised |-> FALSE,
              out |-> <<Header(desc), HalfBlock("First Half", h1, idx[1]),
                        HalfBlock("Second Half", h2, idx[2])>>]

\* -------------------------------------------------------------------- state
VARIABLES
    test_folds,       \* the mode flag of __main__
    rmse_env,         \* the error profile of the data (an input)
    pc,               \* the position of __main__
    fold,             \* the loop variable, 0..num_folds-1
    train_X, train_y, test_X, test_y,   \* module-level names bound by __main__
    preprocessor,     \* the ColumnTransformer object of the current fold
    pred_regression, pred_tree,
    rmse_regression, rmse_tree,         \* the two np.zeros(num_folds) arrays
    printed,          \* what summarize_rmse has printed so far
    events            \* history: the loads, scores, summaries and raises so far

vars == <<test_folds, rmse_env, pc, fold, train_X, train_y, test_X, test_y,
          preprocessor, pred_regression, pred_tree, rmse_regression, rmse_tree,
          printed, events>>

\* A name that is not bound yet.
Unbound == [bound |-> FALSE]

ErrorProfiles == 1..3

NoProv == [scored |-> FALSE]

Ev(kind, k, est, slot, prov) ==
    [ev |-> kind, fold |-> k, est |-> est, slot |-> slot, prov |-> prov]

\* What a score compared: where the truth and the predictions came from and
\* how many logarithms each is under.
Prov(y, pred) ==
    [scored |-> TRUE, y |-> Origin(y), y_logs |-> y.logs, pred_on |-> pred.on,
     pred_logs |-> pred.logs, fit_X |-> pred.fit_X, fit_y |-> pred.fit_y]

Init ==
    /\ test_folds \in BOOLEAN
    /\ rmse_env \in ErrorProfiles
    /\ pc = "main"
    /\ fold = 0
    /\ train_X = Unbound /\ train_y = Unbound
    /\ test_X = Unbound /\ test_y = Unbound
    /\ preprocessor = Unbound
    /\ pred_regression = Unbound /\ pred_tree = Unbound
    /\ rmse_regression = <<>> /\ rmse_tree = <<>>
    /\ printed = <<>>
    /\ events = <<>>

\* np.zeros(n)
np_zeros(n) == [i \in 1..n |-> 0]

\* No handler encloses any call of __main__: an exception raised in fold
\* index f ends the program there.
CaughtAndSkipped(f) ==
    [pc |-> IF f + 1 < num_folds THEN "load" ELSE "summ_reg", fold |-> f + 1]

Uncaught(f) == [pc |-> "aborted", fold |-> f]

Raise ==
    /\ pc' = Uncaught(fold).pc
    /\ fold' = Uncaught(fold).fold

\* for fold in range(num_folds): the index after f.
range_skipping(f) == f + 2

range_next(f) == f + 1

\* The test_X the two predict functions read: not a parameter but the
\* module-level name, bound by the loop before they are called.
predict_input_train == train_X

predict_input == test_X

predict_regression(tX, ty, prep) ==
    fit_predict("ElasticNet", tX, ty, prep, predict_input)

predict_tree(tX, ty, prep) ==
    fit_predict("LinearRegression", tX, ty, prep, predict_input)

\* ------------------------------------------------------------------ actions
\* if test_folds: num_folds = 10; the two arrays of zeros; the loop starts.
EnterFoldMode ==
    /\ pc = "main" /\ test_folds
    /\ rmse_regression' = np_zeros(num_folds)
    /\ rmse_tree' = np_zeros(num_folds)
    /\ fold' = 0
    /\ pc' = IF 0 < num_folds THEN "load" ELSE "summ_reg"
    /\ UNCHANGED <<test_folds, rmse_env, train_X, train_y, test_X, test_y,
                   preprocessor, pred_regression, pred_tree, printed, events>>

\* else: train_X, train_y, test_X = dl.get_prediction_data(); the program ends.
EnterPredictionMode ==
    /\ pc = "main" /\ ~test_folds
    /\ \E tr \in TrainCsvs, te \in TestCsvs :
        LET r == get_prediction_data([train |-> tr, test |-> te, test_y |-> Missing])
        IN  IF r.raised
            THEN /\ Raise
                 /\ events' = events \o <<Ev("load", 0, "", -1, NoProv),
                                           Ev("raise", 0, "", -1, NoProv)>>
                 /\ UNCHANGED <<train_X, train_y, test_X>>
            ELSE /\ train_X' = r.train_X
                 /\ train_y' = r.train_y
                 /\ test_X' = r.test_X
                 /\ events' = Append(events, Ev("load", 0, "", -1, NoProv))
                 /\ pc' = "done"
                 /\ UNCHANGED fold
    /\ UNCHANGED <<test_folds, rmse_env, test_y, preprocessor, pred_regression,
                   pred_tree, rmse_regression, rmse_tree, printed>>

\* train_X, train_y, test_X, test_y = dl.get_fold_data(fold=fold+1)
GetFoldData ==
    /\ pc = "load"
    /\ \E tr \in TrainCsvs, te \in TestCsvs, ty \in TestYCsvs :
        LET r == get_fold_data(fold + 1, [train |-> tr, test |-> te, test_y |-> ty])
        IN  IF r.raised
            THEN /\ Raise
                 /\ events' = events \o <<Ev("load", fold + 1, "", -1, NoProv),
                                           Ev("raise", fold + 1, "", -1, NoProv)>>
                 /\ UNCHANGED <<train_X, train_y, test_X, test_y>>
            ELSE /\ train_X' = r.train_X
                 /\ train_y' = r.train_y
                 /\ test_X' = r.test_X
                 /\ test_y' = r.test_y
                 /\ events' = Append(events, Ev("load", fold + 1, "", -1, NoProv))
                 /\ pc' = "preproc"
                 /\ UNCHANGED fold
    /\ UNCHANGED <<test_folds, rmse_env, preprocessor, pred_regression, pred_tree,
                   rmse_regression, rmse_tree, printed>>

\* preprocessor = dl.make_preprocessor(train_X)
MakePreprocessor ==
    /\ pc = "preproc"
    /\ preprocessor' = make_preprocessor(train_X)
    /\ pc' = "pred_reg"
    /\ UNCHANGED <<test_folds, rmse_env, fold, train_X, train_y, test_X, test_y,
                   pred_regression, pred_tree, rmse_regression, rmse_tree,
                   printed, events>>

\* pred_regression = predict_regression(train_X, train_y, preprocessor)
PredictRegression ==
    /\ pc = "pred_reg"
    /\ LET r == predict_regression(train_X, train_y, preprocessor)
       IN  /\ preprocessor' = r.preprocessor
           /\ IF r.raised
              THEN /\ Raise
                   /\ events' = Append(events, Ev("raise", fold + 1, "", -1, NoProv))
                   /\ UNCHANGED pred_regression
              ELSE /\ pred_regression' = r.pred
                   /\ pc' = "pred_tree"
                   /\ UNCHANGED <<fold, events>>
    /\ UNCHANGED <<test_folds, rmse_env, train_X, train_y, test_X, test_y,
                   pred_tree, rmse_regression, rmse_tree, printed>>

\* pred_tree = predict_tree(train_X, train_y, preprocessor)
PredictTree ==
    /\ pc = "pred_tree"
    /\ LET r == predict_tree(train_X, train_y, preprocessor)
       IN  /\ preprocessor' = r.preprocessor
           /\ IF r.raised
              THEN /\ Raise
                   /\ events' = Append(events, Ev("raise", fold + 1, "", -1, NoProv))
                   /\ UNCHANGED pred_tree
              ELSE /\ pred_tree' = r.pred
                   /\ pc' = "score_reg"
                   /\ UNCHANGED <<fold, events>>
    /\ UNCHANGED <<test_folds, rmse_env, train_X, train_y, test_X, test_y,
                   pred_regression, rmse_regression, rmse_tree, printed>>

\* rmse_regression[fold] = mean_squared_error(test_y, pred_regression, squared=False)
ScoreRegression ==
    /\ pc = "score_reg"
    /\ LET r == mean_squared_error(test_y, pred_regression, rmse_env, fold + 1)
       IN  IF r.raised
           THEN /\ Raise
                /\ events' = Append(events, Ev("raise", fold + 1, "", -1, NoProv))
                /\ UNCHANGED rmse_regression
           ELSE /\ rmse_regression' = [rmse_regression EXCEPT ![fold + 1] = r.value]
                /\ events' = Append(events, Ev("score", fold + 1, "Regression", fold,
                                               Prov(test_y, pred_regression)))
                /\ pc' = "score_tree"
                /\ UNCHANGED fold
    /\ UNCHANGED <<test_folds, rmse_env, train_X, train_y, test_X, test_y,
                   preprocessor, pred_regression, pred_tree, rmse_tree, printed>>

\* rmse_tree[fold] = mean_squared_error(test_y, pred_tree, squared=False); the
\* iteration ends and the loop goes on to the next index, or to the summaries.
ScoreTree ==
    /\ pc = "score_tree"
    /\ LET r == mean_squared_error(test_y, pred_tree, rmse_env, fold + 1)
       IN  IF r.raised
           THEN /\ Raise
                /\ events' = Append(events, Ev("raise", fold + 1, "", -1, NoProv))
                /\ UNCHANGED rmse_tree
           ELSE /\ rmse_tree' = [rmse_tree EXCEPT ![fold + 1] = r.value]
                /\ events' = Append(events, Ev("score", fold + 1, "Tree", fold,
                                               Prov(test_y, pred_tree)))
                /\ IF range_next(fold) < num_folds
                   THEN pc' = "load" /\ fold' = range_next(fold)
                   ELSE pc' = "summ_reg" /\ UNCHANGED fold
    /\ UNCHANGED <<test_folds, rmse_env, train_X, train_y, test_X, test_y,
                   preprocessor, pred_regression, pred_tree, rmse_regression, printed>>

\* summarize_rmse(rmse_regression, "Regression")
SummarizeRegression ==
    /\ pc = "summ_reg"
    /\ LET r == summarize_rmse(rmse_regression, "Regression")
       IN  /\ printed' = printed \o r.out
           /\ IF r.raised
              THEN /\ Raise
                   /\ events' = Append(events, Ev("raise", 0, "", -1, NoProv))
              ELSE /\ events' = Append(events, Ev("summary", 0, "Regression", -1, NoProv))
                   /\ pc' = "summ_tree"
                   /\ UNCHANGED fold
    /\ UNCHANGED <<test_folds, rmse_env, train_X, train_y, test_X, test_y,
                   preprocessor, pred_regression, pred_tree, rmse_regression, rmse_tree>>

\* summarize_rmse(rmse_tree, "Tree"); the program ends.
SummarizeTree ==
    /\ pc = "summ_tree"
    /\ LET r == summarize_rmse(rmse_tree, "Tree")
       IN  /\ printed' = printed \o r.out
           /\ IF r.raised
              THEN /\ Raise
                   /\ events' = Append(events, Ev("raise", 0, "", -1, NoProv))
              ELSE /\ events' = Append(events, Ev("summary", 0, "Tree", -1, NoProv))
                   /\ pc' = "done"
                   /\ UNCHANGED fold
    /\ UNCHANGED <<test_folds, rmse_env, train_X, train_y, test_X, test_y,
                   preprocessor, pred_regression, pred_tree, rmse_regression, rmse_tree>>

Next ==
    \/ EnterFoldMode
    \/ EnterPredictionMode
    \/ GetFoldData
    \/ MakePreprocessor
    \/ PredictRegression
    \/ PredictTree
    \/ ScoreRegression
    \/ ScoreTree
    \/ SummarizeRegression
    \/ SummarizeTree

Spec == Init /\ [][Next]_vars

\* ------------------------------------------- summarize_rmse as a function
\* Every sequence of at most MaxLen values of 0..MaxVal.
RmseSeqs == UNION {[1..n -> 0..MaxVal] : n \in 0..MaxLen}

InitSum ==
    /\ test_folds = TRUE
    /\ rmse_env = 1
    /\ pc = "summ_input"
    /\ fold = 0
    /\ train_X = Unbound /\ train_y = Unbound
    /\ test_X = Unbound /\ test_y = Unbound
    /\ preprocessor = Unbound
    /\ pred_regression = Unbound /\ pred_tree = Unbound
    /\ rmse_regression \in RmseSeqs
    /\ rmse_tree = <<>>
    /\ printed = <<>>
    /\ events = <<>>

\* summarize_rmse(rmse_array, desc) on the sequence drawn.
SummarizeInput ==
    /\ pc = "summ_input"
    /\ LET r == summarize_rmse(rmse_regression, "Input")
       IN  /\ printed' = r.out
           /\ pc' = IF r.raised THEN "aborted" ELSE "done"
    /\ UNCHANGED <<test_folds, rmse_env, fold, train_X, train_y, test_X, test_y,
                   preprocessor, pred_regression, pred_tree, rmse_regression,
                   rmse_tree, events>>

NextSum == SummarizeInput

SpecSum == InitSum /\ [][NextSum]_vars

\* ------------------------------------------------------------------- claims
InFold == pc \in {"preproc", "pred_reg", "pred_tree", "score_reg", "score_tree"}

Built == pc \in {"pred_reg", "pred_tree", "score_reg", "score_tree"}

Predicted == pc \in {"score_reg", "score_tree"}

TrainOf(k) == [src |-> k, file |-> "train.csv"]

TestOf(k) == [src |-> k, file |-> "test.csv"]

TestYOf(k) == [src |-> k, file |-> "test_y.csv"]

ScoreEvents == {i \in 1..Len(events) : events[i].ev = "score"}

\* C1: in fold mode, once the loader has returned, neither the training
\* predictor frame nor the test predictor frame holds a drop-list column or
\* the response column, whatever the two files held.
C1_FramesHoldNoDropNoResponse ==
    (test_folds /\ InFold) =>
        /\ train_X.cols \cap (DROP_COLS \cup {RESPONSE_VAR}) = {}
        /\ test_X.cols \cap (DROP_COLS \cup {RESPONSE_VAR}) = {}

\* The positions lo..hi of the full sequence a that a printed half covers.
HalfLo(a, b) == IF b.title = "First Half" THEN 1 ELSE Len(a) \div 2 + 1

HalfHi(a, b) == IF b.title = "First Half" THEN Len(a) \div 2 ELSE Len(a)

HalfBlocks == {i \in 1..Len(printed) : printed[i].kind = "half"}

\* C2: for each half summarize_rmse reports on, the worst-fold number is
\* (position of the maximum within the half) + (start offset of the half) + 1:
\* the 1-based position, in the full sequence, of the first maximum of that half.
C2_WorstFoldIsPositionOfHalfMax ==
    \A i \in HalfBlocks :
        LET a == rmse_regression
            b == printed[i]
            lo == HalfLo(a, b)
            hi == HalfHi(a, b)
            w == b.worst
        IN  /\ w \in lo..hi
            /\ \A j \in lo..hi : a[j] <= a[w]
            /\ \A j \in lo..(w - 1) : a[j] < a[w]
            /\ \E p \in 0..(hi - lo) :
                /\ w = p + (lo - 1) + 1
                /\ b.half[p + 1] = a[w]
                /\ \A q \in 1..p : b.half[q] < a[w]

\* A sequence of four whose first half ties (the first position is reported)
\* and whose second half has its maximum last (the offset is added).
C2_Witness ==
    /\ pc = "done" /\ Len(rmse_regression) = 4
    /\ rmse_regression[1] = rmse_regression[2]
    /\ rmse_regression[3] < rmse_regression[4]
    /\ printed[2].worst = 1 /\ printed[3].worst = 4

\* C3 as stated: the preprocessor of a fold is fit exactly once, and not
\* again before both models have made their test predictions.
C3_FitExactlyOncePerFold ==
    (pc \in {"pred_tree", "score_reg", "score_tree"}) => preprocessor.fits = 1

\* C3 as amended: the preprocessor of a fold is fit on that fold's training
\* data only, once by each of the two pipelines (twice in the fold, the second
\* fit coming after the regression model's test predictions), and each model's
\* test predictions use the fit made by its own pipeline, unmodified.
C3_FitOncePerPipelineOnTrainingData ==
    Built =>
        /\ preprocessor.fitted_on \in {NotFitted, TrainOf(fold + 1)}
        /\ (pc = "pred_reg") => preprocessor.fits = 0
        /\ (pc = "pred_tree") => preprocessor.fits = 1
        /\ Predicted => preprocessor.fits = 2
        /\ (pc # "pred_reg") =>
              /\ pred_regression.prep_fit = 1
              /\ pred_regression.prep_on = TrainOf(fold + 1)
        /\ Predicted =>
              /\ pred_tree.prep_fit = 2
              /\ pred_tree.prep_on = TrainOf(fold + 1)

C3_Witness ==
    /\ pc = "score_tree" /\ fold = 1
    /\ preprocessor.fits = 2
    /\ pred_regression.prep_fit = 1 /\ pred_tree.prep_fit = 2

\* C4: in fold mode both models of fold k are fit on fold k's training
\* predictors and response, and what is scored for fold k are predictions on
\* fold k's test predictors, one per test row.
C4_FitAndPredictOnCurrentFold ==
    /\ (pc \in {"pred_tree", "score_reg", "score_tree"}) =>
          /\ pred_regression.fit_X = TrainOf(fold + 1)
          /\ pred_regression.fit_y = TrainOf(fold + 1)
          /\ pred_regression.on = TestOf(fold + 1)
          /\ pred_regression.rows = test_X.rows
    /\ Predicted =>
          /\ pred_tree.fit_X = TrainOf(fold + 1)
          /\ pred_tree.fit_y = TrainOf(fold + 1)
          /\ pred_tree.on = TestOf(fold + 1)
          /\ pred_tree.rows = test_X.rows
    /\ \A i \in ScoreEvents :
          LET e == events[i] IN
          /\ e.prov.fit_X = TrainOf(e.fold)
          /\ e.prov.fit_y = TrainOf(e.fold)
          /\ e.prov.pred_on = TestOf(e.fold)
          /\ e.prov.y = TestYOf(e.fold)

\* The second fold, about to be scored, with a test frame of two rows.
C4_Witness ==
    /\ pc = "score_reg" /\ fold = 1
    /\ test_X.src = 2 /\ test_X.rows = 2
    /\ pred_regression.on = TestOf(2) /\ pred_tree.on = TestOf(2)
    /\ pred_tree.rows = 2

\* The event a complete run of fold mode has at position i.
ExpectedEvent(i) ==
    IF i <= 3 * num_folds
    THEN LET k == (i - 1) \div 3 + 1
             r == (i - 1) % 3
         IN  CASE r = 0 -> [ev |-> "load", fold |-> k, est |-> "", slot |-> -1]
               [] r = 1 -> [ev |-> "score", fold |-> k, est |-> "Regression", slot |-> k - 1]
               [] OTHER -> [ev |-> "score", fold |-> k, est |-> "Tree", slot |-> k - 1]
    ELSE [ev |-> "summary", fold |-> 0,
          est |-> IF i = 3 * num_folds + 1 THEN "Regression" ELSE "Tree", slot |-> -1]

\* C5: in fold mode the folds are handled one after another in the order
\* 1, 2, ..., 10, each once; slot k-1 of each array is written once, in fold
\* k's iteration; the summaries come after all ten folds are scored; at the
\* end each array holds one scalar per fold.
C5_FoldsInOrderOneWritePerSlot ==
    test_folds =>
        /\ \A i \in 1..Len(events) :
              LET e == events[i] IN
              \/ e.ev = "raise"
              \/ [ev |-> e.ev, fold |-> e.fold, est |-> e.est, slot |-> e.slot]
                    = ExpectedEvent(i)
        /\ (printed # <<>>) => Cardinality(ScoreEvents) = 2 * num_folds
        /\ (pc = "done") =>
              /\ Len(events) = 3 * num_folds + 2
              /\ Len(rmse_regression) = num_folds
              /\ Len(rmse_tree) = num_folds
              /\ \A k \in 1..num_folds :
                    /\ rmse_regression[k] = MeasuredRmse(rmse_env, k, "ElasticNet")
                    /\ rmse_tree[k] = MeasuredRmse(rmse_env, k, "LinearRegression")

C5_Witness ==
    /\ test_folds /\ pc = "done"
    /\ Len(events) = 3 * num_folds + 2
    /\ events[3 * num_folds].slot = num_folds - 1

\* C6: every RMSE stored compares two quantities in log space: the response
\* each model was fit on and the test response have had the logarithm taken
\* exactly once, and nothing is fit or compared in raw price space.
C6_ScoresAreInLogSpace ==
    /\ (test_folds /\ InFold) => (train_y.logs = 1 /\ test_y.logs = 1)
    /\ \A i \in ScoreEvents :
          /\ events[i].prov.y_logs = 1
          /\ events[i].prov.pred_logs = 1

C6_Witness ==
    /\ Len(events) >= 3
    /\ events[3].ev = "score" /\ events[3].est = "Tree"
    /\ events[3].prov.y_logs = 1 /\ events[3].prov.pred_logs = 1

RaiseEvents == {i \in 1..Len(events) : events[i].ev = "raise"}

\* C7: a failure of loading, fitting, predicting or scoring in fold k ends the
\* run there: nothing follows the failure (no later fold, no retry of fold k),
\* and no summary block is printed, not even for the folds before k.
C7_FailureAbortsTheRun ==
    /\ \A i \in RaiseEvents : i = Len(events) /\ pc = "aborted"
    /\ (pc = "aborted") =>
          /\ RaiseEvents # {}
          /\ printed = <<>>
          /\ \A i \in 1..Len(events) : events[i].ev # "summary"
          /\ LET k == events[Len(events)].fold IN
                /\ Cardinality({i \in 1..Len(events) :
                                  events[i].ev = "load" /\ events[i].fold = k}) = 1
                /\ \A i \in 1..Len(events) : events[i].fold <= k

\* A failure of scoring in the third fold, after two folds were scored.
C7_Witness ==
    /\ pc = "aborted" /\ fold = 2
    /\ events[Len(events)].fold = 3
    /\ pred_tree.on = TestOf(3)
    /\ Cardinality(ScoreEvents) = 4
    /\ printed = <<>>

\* The dtypes pandas counts as numeric (is_numeric_dtype), among those
\* read_csv gives.
NumericDtypes == {"int64", "float64", "bool"}

\* C8: make_preprocessor puts every column of the training frame in exactly
\* one group: the columns of non-numeric dtype in the categorical group, those
\* of numeric dtype in the numerical group; each override column is in the
\* categorical group although its text reads as numbers.
C8_ColumnsPartitionedByDtype ==
    Built =>
        LET cat == preprocessor.categorical_columns
            num == preprocessor.numerical_columns
        IN  /\ cat \cup num = train_X.cols
            /\ cat \cap num = {}
            /\ \A c \in train_X.cols :
                  IF train_X.dtype[c] \in NumericDtypes THEN c \in num ELSE c \in cat
            /\ \A c \in CATEGORICALS \cap train_X.cols :
                  /\ KindsOf(1)[c] \in {"int", "float"}
                  /\ KindsOf(2)[c] \in {"int", "float"}
                  /\ c \in cat

C8_Witness ==
    /\ pc = "pred_reg"
    /\ CATEGORICALS \subseteq preprocessor.categorical_columns
    /\ "Neighborhood" \in preprocessor.categorical_columns
    /\ train_X.dtype["Central_Air"] = "bool"
    /\ {"Lot_Area", "Lot_Frontage", "Central_Air"} = preprocessor.numerical_columns

PredictionOnRoot(p) == p # Unbound /\ p.on = TestOf(0)

\* C9: the flag selects one of two runs: set, ten folds are scored and two
\* summaries printed; cleared, one final prediction is made from the root
\* train.csv/test.csv, no fold directory is read and no summary is printed.
C9_FlagSelectsCrossValidationOrPrediction ==
    (pc = "done") =>
        IF test_folds
        THEN /\ Cardinality(ScoreEvents) = 2 * num_folds
             /\ Cardinality({i \in 1..Len(printed) : printed[i].kind = "header"}) = 2
        ELSE /\ \A i \in 1..Len(events) : events[i].fold = 0 /\ events[i].ev = "load"
             /\ printed = <<>>
             /\ PredictionOnRoot(pred_regression) \/ PredictionOnRoot(pred_tree)

RECURSIVE PosSum(_, _, _)
PosSum(a, lo, hi) == IF lo > hi THEN 0 ELSE a[lo] + PosSum(a, lo + 1, hi)

\* C10: a sequence of any length N is split into the elements at positions
\* [0, N div 2) and those at [N div 2, N), in order, every element in exactly
\* one half (the extra element of an odd N in the second); the range, mean and
\* worst fold of a half come from that half's elements only.  (With N < 2 the
\* first half is empty and the call raises before any half is reported.)
C10_HalvesSplitAtNDiv2 ==
    LET a == rmse_regression
        N == Len(a)
    IN  /\ (pc = "done") =>
              /\ Len(printed) = 3
              /\ printed[2].kind = "half" /\ printed[2].title = "First Half"
              /\ printed[3].kind = "half" /\ printed[3].title = "Second Half"
              /\ printed[2].half = [i \in 1..(N \div 2) |-> a[i]]
              /\ printed[3].half = [i \in 1..(N - N \div 2) |-> a[N \div 2 + i]]
              /\ printed[2].half \o printed[3].half = a
              /\ Len(printed[3].half) - Len(printed[2].half) = N % 2
        /\ (pc = "aborted") => (N < 2 /\ HalfBlocks = {})
        /\ \A i \in HalfBlocks :
              LET b == printed[i]
                  lo == HalfLo(a, b)
                  hi == HalfHi(a, b)
              IN  /\ \E j \in lo..hi : b.range[1] = a[j]
                  /\ \E j \in lo..hi : b.range[2] = a[j]
                  /\ \A j \in lo..hi : b.range[1] <= a[j] /\ a[j] <= b.range[2]
                  /\ b.mean = [sum |-> PosSum(a, lo, hi), n |-> hi - lo + 1]
                  /\ b.worst \in lo..hi

\* An odd length: the second half has the extra element.
C10_Witness ==
    /\ pc = "done" /\ Len(rmse_regression) = 3
    /\ Len(printed[2].half) = 1 /\ Len(printed[3].half) = 2
    /\ printed[3].range = <<0, 2>>

====
